---- MODULE Spec2Model ----
(***************************************************************************)
(* logmerge: timestamp detection (pattern table, findBestMatch,            *)
(* extractTimestamp, parseLogLine with the per-file format cache), the     *)
(* line reader readNextTimestamp, the k-way merge mergeLogs and the        *)
(* consumer loop of main, which receives the merged records over an        *)
(* unbuffered channel.                                                     *)
(*                                                                         *)
(* Text is modelled character by character: a string is a sequence of      *)
(* one-character strings, offsets are 0-based as in Go, and s[a:b] is      *)
(* Slice(s, a, b).  The regular expressions of the pattern table are       *)
(* sequences of elements matched leftmost-first with greedy repetition,    *)
(* and time.Parse consumes a value along the fields of its layout.         *)
(***************************************************************************)
EXTENDS Integers, Sequences, FiniteSets, TLC

(***************************************************************************)
(* Strings and characters                                                  *)
(***************************************************************************)
nil == <<>>

\* body(x) with x evaluated once, before the body.
With(x, body(_)) == CHOOSE r \in {body(y) : y \in {x}} : TRUE

Slice(s, a, b) == SubSeq(s, a + 1, b)

Digits == <<"0", "1", "2", "3", "4", "5", "6", "7", "8", "9">>

UpperCase ==
  <<"A", "B", "C", "D", "E", "F", "G", "H", "I", "J", "K", "L", "M",
    "N", "O", "P", "Q", "R", "S", "T", "U", "V", "W", "X", "Y", "Z">>

LowerCase ==
  <<"a", "b", "c", "d", "e", "f", "g", "h", "i", "j", "k", "l", "m",
    "n", "o", "p", "q", "r", "s", "t", "u", "v", "w", "x", "y", "z">>

Range(s) == {s[i] : i \in DOMAIN s}

digitSet == Range(Digits)

letterSet == Range(UpperCase) \cup Range(LowerCase)

isDigit(c) == c \in digitSet

isLetter(c) == c \in letterSet

digitValue(c) == (CHOOSE i \in DOMAIN Digits : Digits[i] = c) - 1

toLower(c) ==
  IF c \in Range(UpperCase)
    THEN LowerCase[CHOOSE i \in DOMAIN UpperCase : UpperCase[i] = c]
    ELSE c

(***************************************************************************)
(* Regular expressions (package regexp): an expression is a sequence of    *)
(* elements; an element is a literal character or a character class, once  *)
(* or (plus) one or more times, greedy.                                    *)
(***************************************************************************)
Lit(c) == <<[kind |-> "lit", ch |-> c, plus |-> FALSE]>>

Cls(name, n) == [i \in 1..n |-> [kind |-> "cls", ch |-> name, plus |-> FALSE]]

ClsPlus(name) == <<[kind |-> "cls", ch |-> name, plus |-> TRUE]>>

LitPlus(c) == <<[kind |-> "lit", ch |-> c, plus |-> TRUE]>>

elemMatches(e, c) ==
  IF e.kind = "lit" THEN c = e.ch
  ELSE IF e.ch = "digit" THEN isDigit(c)
  ELSE IF e.ch = "letter" THEN isLetter(c)
  ELSE c \in {"+", "-"}

\* The end of the run of characters matching e that starts at offset p.
RECURSIVE runEnd(_, _, _)
runEnd(e, s, p) ==
  IF p < Len(s) /\ elemMatches(e, s[p + 1]) THEN runEnd(e, s, p + 1) ELSE p

\* The end offset of the match of re[k..] at offset p of s, or -1.
RECURSIVE matchFrom(_, _, _, _)
RECURSIVE matchPlus(_, _, _, _, _)
matchFrom(re, k, s, p) ==
  IF k > Len(re) THEN p
  ELSE IF p >= Len(s) \/ ~elemMatches(re[k], s[p + 1]) THEN -1
  ELSE IF re[k].plus THEN matchPlus(re, k, s, p, runEnd(re[k], s, p))
  ELSE matchFrom(re, k + 1, s, p + 1)

\* Greedy repetition: the longest run first, then shorter ones.
matchPlus(re, k, s, p, q) ==
  IF q <= p THEN -1
  ELSE LET e == matchFrom(re, k + 1, s, q)
       IN IF e # -1 THEN e ELSE matchPlus(re, k, s, p, q - 1)

RECURSIVE findFrom(_, _, _)
findFrom(re, s, start) ==
  IF start > Len(s) THEN nil
  ELSE LET e == matchFrom(re, 1, s, start)
       IN IF e # -1 THEN <<start, e>> ELSE findFrom(re, s, start + 1)

\* regexp.FindStringIndex: the leftmost match as <<start, end>>, or nil.
FindStringIndex(re, s) == findFrom(re, s, 0)

(***************************************************************************)
(* Package time.  A Time keeps the calendar fields of its own zone and the *)
(* zone's offset east of UTC in seconds; instants are compared on the      *)
(* absolute key <<day number, second of day, nanosecond>>.                 *)
(***************************************************************************)
Time(y, mo, d, h, mi, s, ns, off) ==
  [year |-> y, month |-> mo, day |-> d, hour |-> h, min |-> mi, sec |-> s,
   nsec |-> ns, offset |-> off]

\* time.Time{}: January 1, year 1, 00:00:00 UTC.
ZeroTime == Time(1, 1, 1, 0, 0, 0, 0, 0)

isLeap(y) == y % 4 = 0 /\ (y % 100 # 0 \/ y % 400 = 0)

daysIn(mo, y) ==
  IF mo = 2 THEN (IF isLeap(y) THEN 29 ELSE 28)
  ELSE IF mo \in {4, 6, 9, 11} THEN 30 ELSE 31

RECURSIVE daysBeforeMonth(_, _)
daysBeforeMonth(mo, y) ==
  IF mo <= 1 THEN 0 ELSE daysBeforeMonth(mo - 1, y) + daysIn(mo - 1, y)

\* Days from January 1 of year 0 to the given date (years 0..9999).
dayNumber(y, mo, d) ==
  365 * y + ((y + 3) \div 4) - ((y + 99) \div 100) + ((y + 399) \div 400)
    + daysBeforeMonth(mo, y) + (d - 1)

absKey(t) ==
  LET sod == t.hour * 3600 + t.min * 60 + t.sec - t.offset + 172800
  IN <<dayNumber(t.year, t.month, t.day) + (sod \div 86400) - 2,
       sod % 86400, t.nsec>>

keyLess(a, b) ==
  \/ a[1] < b[1]
  \/ a[1] = b[1] /\ a[2] < b[2]
  \/ a[1] = b[1] /\ a[2] = b[2] /\ a[3] < b[3]

Before(t, u) == keyLess(absKey(t), absKey(u))

After(t, u) == keyLess(absKey(u), absKey(t))

IsZero(t) == absKey(t) = absKey(ZeroTime)

Year(t) == t.year

\* t.AddDate(years, 0, 0): the date is normalised, so February 29 of a
\* leap year becomes March 1 when the target year is not a leap year.
AddDate(t, years) ==
  LET y == t.year + years
  IN IF t.day > daysIn(t.month, y)
       THEN [t EXCEPT !.year = y, !.month = t.month + 1,
                      !.day = t.day - daysIn(t.month, y)]
       ELSE [t EXCEPT !.year = y]

shortMonthNames ==
  << <<"J", "a", "n">>, <<"F", "e", "b">>, <<"M", "a", "r">>,
     <<"A", "p", "r">>, <<"M", "a", "y">>, <<"J", "u", "n">>,
     <<"J", "u", "l">>, <<"A", "u", "g">>, <<"S", "e", "p">>,
     <<"O", "c", "t">>, <<"N", "o", "v">>, <<"D", "e", "c">> >>

\* The state of time.Parse: the offset p reached in the value, the fields
\* read so far (month and day -1 while unset, as in Go) and the error flag.
parseStart ==
  [ok |-> TRUE, p |-> 0, year |-> 0, month |-> -1, day |-> -1, hour |-> 0,
   min |-> 0, sec |-> 0, nsec |-> 0, offset |-> 0]

parseErr(st) == [st EXCEPT !.ok = FALSE]

digitAt(v, p) == p < Len(v) /\ isDigit(v[p + 1])

\* getnum: one or two digits (exactly two when fixed).
getnum(v, p, fixed) ==
  IF ~digitAt(v, p) THEN [ok |-> FALSE, n |-> 0, p |-> p]
  ELSE IF ~digitAt(v, p + 1)
    THEN (IF fixed THEN [ok |-> FALSE, n |-> 0, p |-> p]
          ELSE [ok |-> TRUE, n |-> digitValue(v[p + 1]), p |-> p + 1])
  ELSE [ok |-> TRUE, n |-> digitValue(v[p + 1]) * 10 + digitValue(v[p + 2]),
        p |-> p + 2]

RECURSIVE decimal(_, _, _)
decimal(v, a, b) ==
  IF a >= b THEN 0 ELSE decimal(v, a, b - 1) * 10 + digitValue(v[b])

\* atoi of v[a:b], all of whose characters must be digits; -1 otherwise.
atoi(v, a, b) ==
  IF \A j \in (a + 1)..b : isDigit(v[j]) THEN decimal(v, a, b) ELSE -1

RECURSIVE pow10(_)
pow10(n) == IF n <= 0 THEN 1 ELSE 10 * pow10(n - 1)

commaOrPeriod(c) == c \in {".", ","}

\* parseNanoseconds(value, nbytes) at offset p: a separator and nbytes-1
\* digits, scaled to nanoseconds.
parseNanoseconds(v, p, nbytes) ==
  IF ~commaOrPeriod(v[p + 1]) THEN -1
  ELSE LET ns == atoi(v, p + 1, p + nbytes)
       IN IF ns = -1 THEN -1 ELSE ns * pow10(10 - nbytes)

RECURSIVE cutspace(_, _)
cutspace(v, p) == IF p < Len(v) /\ v[p + 1] = " " THEN cutspace(v, p + 1) ELSE p

\* lookup(shortMonthNames, value): the month whose name starts the value,
\* compared without regard to case; 0 when there is none.
lookupMonth(v, p) ==
  LET hit == {m \in DOMAIN shortMonthNames :
                /\ p + 3 <= Len(v)
                /\ \A j \in 1..3 :
                     toLower(v[p + j]) = toLower(shortMonthNames[m][j])}
  IN IF hit = {} THEN 0 ELSE CHOOSE m \in hit : TRUE

\* One chunk of the layout applied to the value: a literal prefix character
\* (skip) or a standard field.
parseChunk(tok, next, v, st) ==
  LET p == st.p
  IN CASE tok = "2006" ->
            IF p + 4 > Len(v) \/ atoi(v, p, p + 4) = -1 THEN parseErr(st)
            ELSE [st EXCEPT !.year = atoi(v, p, p + 4), !.p = p + 4]
       [] tok = "Jan" ->
            IF lookupMonth(v, p) = 0 THEN parseErr(st)
            ELSE [st EXCEPT !.month = lookupMonth(v, p), !.p = p + 3]
       [] tok = "01" ->
            LET r == getnum(v, p, TRUE)
            IN IF ~r.ok \/ r.n <= 0 \/ 12 < r.n THEN parseErr(st)
               ELSE [st EXCEPT !.month = r.n, !.p = r.p]
       [] tok \in {"02", "_2"} ->
            LET q == IF tok = "_2" /\ p < Len(v) /\ v[p + 1] = " "
                       THEN p + 1 ELSE p
                r == getnum(v, q, tok = "02")
            IN IF ~r.ok THEN parseErr(st)
               ELSE [st EXCEPT !.day = r.n, !.p = r.p]
       [] tok = "15" ->
            LET r == getnum(v, p, FALSE)
            IN IF ~r.ok \/ 24 <= r.n THEN parseErr(st)
               ELSE [st EXCEPT !.hour = r.n, !.p = r.p]
       [] tok = "04" ->
            LET r == getnum(v, p, TRUE)
            IN IF ~r.ok \/ 60 <= r.n THEN parseErr(st)
               ELSE [st EXCEPT !.min = r.n, !.p = r.p]
       [] tok = "05" ->
            LET r == getnum(v, p, TRUE)
            IN IF ~r.ok \/ 60 <= r.n THEN parseErr(st)
               ELSE IF /\ r.p + 2 <= Len(v)
                       /\ commaOrPeriod(v[r.p + 1])
                       /\ isDigit(v[r.p + 2])
                       /\ next \notin {".000", ".000000"}
                 THEN \* a fractional second the layout does not announce
                      LET e == runEnd([kind |-> "cls", ch |-> "digit"], v, r.p + 1)
                          n == IF e - r.p > 10 THEN 10 ELSE e - r.p
                      IN [st EXCEPT !.sec = r.n, !.p = e,
                                    !.nsec = parseNanoseconds(v, r.p, n)]
               ELSE [st EXCEPT !.sec = r.n, !.p = r.p]
       [] tok \in {".000", ".000000"} ->
            LET ndigit == IF tok = ".000" THEN 4 ELSE 7
            IN IF p + ndigit > Len(v) \/ parseNanoseconds(v, p, ndigit) = -1
                 THEN parseErr(st)
                 ELSE [st EXCEPT !.nsec = parseNanoseconds(v, p, ndigit),
                                 !.p = p + ndigit]
       [] tok = "-0700" ->
            IF p + 5 > Len(v) THEN parseErr(st)
            ELSE LET hr == getnum(v, p + 1, TRUE)
                     mm == getnum(v, p + 3, TRUE)
                     secs == (hr.n * 60 + mm.n) * 60
                 IN IF \/ ~hr.ok \/ ~mm.ok \/ hr.n > 24 \/ mm.n > 60
                       \/ v[p + 1] \notin {"+", "-"}
                      THEN parseErr(st)
                      ELSE [st EXCEPT !.p = p + 5,
                              !.offset = IF v[p + 1] = "-" THEN -secs ELSE secs]
       [] tok = " " ->
            IF p < Len(v) /\ v[p + 1] # " " THEN parseErr(st)
            ELSE [st EXCEPT !.p = cutspace(v, p)]
       [] OTHER ->
            IF p >= Len(v) \/ v[p + 1] # tok THEN parseErr(st)
            ELSE [st EXCEPT !.p = p + 1]

RECURSIVE parseChunks(_, _, _, _)
parseChunks(layout, k, v, st) ==
  IF ~st.ok \/ k > Len(layout) THEN st
  ELSE With(parseChunk(layout[k],
                       IF k < Len(layout) THEN layout[k + 1] ELSE "", v, st),
            LAMBDA st2 : parseChunks(layout, k + 1, v, st2))

\* time.Parse(layout, value): [ok, t].  Text left over after the layout,
\* and a day the month does not have, are errors; a missing month or day is
\* January or 1, a missing year is year 0; a zone offset makes the result
\* the instant of the fields read minus that offset.
parseResult(st, v) ==
  LET mo == IF st.month < 0 THEN 1 ELSE st.month
      d == IF st.day < 0 THEN 1 ELSE st.day
  IN IF ~st.ok \/ st.p < Len(v) \/ d < 1 \/ d > daysIn(mo, st.year)
       THEN [ok |-> FALSE, t |-> ZeroTime]
       ELSE [ok |-> TRUE,
             t |-> Time(st.year, mo, d, st.hour, st.min, st.sec, st.nsec,
                        st.offset)]

timeParse(layout, v) ==
  With(parseChunks(layout, 1, v, parseStart), LAMBDA st : parseResult(st, v))

(***************************************************************************)
(* The pattern table (main.go, timestampPatterns).  Go indexes it from 0,   *)
(* the model from 1.  A layout is written as the chunks time.Parse cuts it *)
(* into.                                                                   *)
(***************************************************************************)
reHMS ==
  Cls("digit", 2) \o Lit(":") \o Cls("digit", 2) \o Lit(":") \o Cls("digit", 2)

reDate ==
  Cls("digit", 4) \o Lit("-") \o Cls("digit", 2) \o Lit("-") \o Cls("digit", 2)

reHttpDate ==
  Cls("digit", 2) \o Lit("/") \o Cls("letter", 3) \o Lit("/") \o Cls("digit", 4)

reZone == Lit(" ") \o Cls("sign", 1) \o Cls("digit", 4)

loHMS == <<"15", ":", "04", ":", "05">>

loDate == <<"2006", "-", "01", "-", "02">>

loHttpDate == <<"02", "/", "Jan", "/", "2006">>

timestampPatterns ==
  << \* ([A-Za-z]{3} +\d+ \d{2}:\d{2}:\d{2}), "Jan _2 15:04:05"
     [regex |-> Cls("letter", 3) \o LitPlus(" ") \o ClsPlus("digit")
                  \o Lit(" ") \o reHMS,
      layout |-> <<"Jan", " ", "_2", " ">> \o loHMS],
     \* (\d{4}-\d{2}-\d{2} \d{2}:\d{2}:\d{2} [+-]\d{4}), "2006-01-02 15:04:05 -0700"
     [regex |-> reDate \o Lit(" ") \o reHMS \o reZone,
      layout |-> loDate \o <<" ">> \o loHMS \o <<" ", "-0700">>],
     \* (\d{4}-\d{2}-\d{2} \d{2}:\d{2}:\d{2},\d{3}), "2006-01-02 15:04:05.000"
     [regex |-> reDate \o Lit(" ") \o reHMS \o Lit(",") \o Cls("digit", 3),
      layout |-> loDate \o <<" ">> \o loHMS \o <<".000">>],
     \* (\d{4}-\d{2}-\d{2} \d{2}:\d{2}:\d{2}\.\d{3}), "2006-01-02 15:04:05.000"
     [regex |-> reDate \o Lit(" ") \o reHMS \o Lit(".") \o Cls("digit", 3),
      layout |-> loDate \o <<" ">> \o loHMS \o <<".000">>],
     \* (\d{4}-\d{2}-\d{2} \d{2}:\d{2}:\d{2}), "2006-01-02 15:04:05"
     [regex |-> reDate \o Lit(" ") \o reHMS,
      layout |-> loDate \o <<" ">> \o loHMS],
     \* (\d{4}-\d{2}-\d{2}T\d{2}:\d{2}:\d{2},\d{3}), "2006-01-02T15:04:05.000"
     [regex |-> reDate \o Lit("T") \o reHMS \o Lit(",") \o Cls("digit", 3),
      layout |-> loDate \o <<"T">> \o loHMS \o <<".000">>],
     \* (\d{4}-\d{2}-\d{2}T\d{2}:\d{2}:\d{2}\.\d{3}), "2006-01-02T15:04:05.000"
     [regex |-> reDate \o Lit("T") \o reHMS \o Lit(".") \o Cls("digit", 3),
      layout |-> loDate \o <<"T">> \o loHMS \o <<".000">>],
     \* (\d{4}-\d{2}-\d{2}T\d{2}:\d{2}:\d{2}), "2006-01-02T15:04:05"
     [regex |-> reDate \o Lit("T") \o reHMS,
      layout |-> loDate \o <<"T">> \o loHMS],
     \* (\d{2}/[A-Za-z]{3}/\d{4} \d{2}:\d{2}:\d{2}), "02/Jan/2006 15:04:05"
     [regex |-> reHttpDate \o Lit(" ") \o reHMS,
      layout |-> loHttpDate \o <<" ">> \o loHMS],
     \* (\d{2}/[A-Za-z]{3}/\d{4}:\d{2}:\d{2}:\d{2} [+-]\d{4}), "02/Jan/2006:15:04:05 -0700"
     [regex |-> reHttpDate \o Lit(":") \o reHMS \o reZone,
      layout |-> loHttpDate \o <<":">> \o loHMS \o <<" ", "-0700">>],
     \* (\d{2}:\d{2}:\d{2}\.\d{6}), "15:04:05.000000"
     [regex |-> reHMS \o Lit(".") \o Cls("digit", 6),
      layout |-> loHMS \o <<".000000">>],
     \* (\d+) (\d{2}:\d{2}:\d{2}\.\d{6}), "15:04:05.000000"   (strace format)
     [regex |-> ClsPlus("digit") \o Lit(" ") \o reHMS \o Lit(".")
                  \o Cls("digit", 6),
      layout |-> loHMS \o <<".000000">>] >>

(***************************************************************************)
(* The log lines the input files are made of.                              *)
(***************************************************************************)
\* "2024-01-01 10:00:00 a": a valid date-time (entry 5).
LineHello ==
  <<"2", "0", "2", "4", "-", "0", "1", "-", "0", "1", " ", "1", "0", ":",
    "0", "0", ":", "0", "0", " ", "a">>

\* "2024-01-01 10:00:05 b": a later valid date-time (entry 5).
LineWorld ==
  <<"2", "0", "2", "4", "-", "0", "1", "-", "0", "1", " ", "1", "0", ":",
    "0", "0", ":", "0", "5", " ", "b">>

\* "  at main": no timestamp: a continuation line.
LineTrace ==
  <<" ", " ", "a", "t", " ", "m", "a", "i", "n">>

\* "2024-13-01 10:00:03 c": the shape of entry 5 with month 13: time.Parse fails.
LineBadMonth ==
  <<"2", "0", "2", "4", "-", "1", "3", "-", "0", "1", " ", "1", "0", ":",
    "0", "0", ":", "0", "3", " ", "c">>

\* "2024-13-01T10:00:04 d": the shape of entry 8 with month 13: time.Parse fails.
LineBadMonthT ==
  <<"2", "0", "2", "4", "-", "1", "3", "-", "0", "1", "T", "1", "0", ":",
    "0", "0", ":", "0", "4", " ", "d">>

\* The lines a file can hold; a file's content is a sequence of indexes
\* into this table.
lineText == <<LineHello, LineWorld, LineTrace, LineBadMonth, LineBadMonthT>>

InputLines == DOMAIN lineText

\* "Jan  1 10:00:01 2024-01-01 10:00:05 +0100 x": entry 1 matches at 0,
\* entries 2 and 5 match at 16.
LineTwoStamps ==
  <<"J", "a", "n", " ", " ", "1", " ", "1", "0", ":", "0", "0", ":", "0",
    "1", " ", "2", "0", "2", "4", "-", "0", "1", "-", "0", "1", " ", "1",
    "0", ":", "0", "0", ":", "0", "5", " ", "+", "0", "1", "0", "0", " ",
    "x">>

\* "77 10:00:04.000000 r": entry 11 matches at 3, entry 12 at 0.
LineStrace ==
  <<"7", "7", " ", "1", "0", ":", "0", "0", ":", "0", "4", ".", "0", "0",
    "0", "0", "0", "0", " ", "r">>

\* "Jan  1 10:00:01 f": the year-less syslog shape (entry 1).
LineSyslog ==
  <<"J", "a", "n", " ", " ", "1", " ", "1", "0", ":", "0", "0", ":", "0",
    "1", " ", "f">>

\* "2024-01-01 10:00:05 +0100 g": a date-time with a zone (entry 2).
LineZone ==
  <<"2", "0", "2", "4", "-", "0", "1", "-", "0", "1", " ", "1", "0", ":",
    "0", "0", ":", "0", "5", " ", "+", "0", "1", "0", "0", " ", "g">>

\* "2024-01-01 10:00:02,123 h": milliseconds after a comma (entry 3).
LineComma ==
  <<"2", "0", "2", "4", "-", "0", "1", "-", "0", "1", " ", "1", "0", ":",
    "0", "0", ":", "0", "2", ",", "1", "2", "3", " ", "h">>

\* "2024-01-01 10:00:02.123 i": milliseconds after a period (entry 4).
LineDot ==
  <<"2", "0", "2", "4", "-", "0", "1", "-", "0", "1", " ", "1", "0", ":",
    "0", "0", ":", "0", "2", ".", "1", "2", "3", " ", "i">>

\* "2024-01-01T10:00:02,123 j": entry 6.
LineIsoComma ==
  <<"2", "0", "2", "4", "-", "0", "1", "-", "0", "1", "T", "1", "0", ":",
    "0", "0", ":", "0", "2", ",", "1", "2", "3", " ", "j">>

\* "2024-01-01T10:00:02.123 k": entry 7.
LineIsoDot ==
  <<"2", "0", "2", "4", "-", "0", "1", "-", "0", "1", "T", "1", "0", ":",
    "0", "0", ":", "0", "2", ".", "1", "2", "3", " ", "k">>

\* "2024-01-01T10:00:02 e": entry 8.
LineIso ==
  <<"2", "0", "2", "4", "-", "0", "1", "-", "0", "1", "T", "1", "0", ":",
    "0", "0", ":", "0", "2", " ", "e">>

\* "01/Jan/2024 10:00:03 l": entry 9.
LineHttp ==
  <<"0", "1", "/", "J", "a", "n", "/", "2", "0", "2", "4", " ", "1", "0",
    ":", "0", "0", ":", "0", "3", " ", "l">>

\* "- [01/Jan/2024:10:00:03 +0100] m": entry 10, the timestamp at offset 3.
LineHttpZone ==
  <<"-", " ", "[", "0", "1", "/", "J", "a", "n", "/", "2", "0", "2", "4",
    ":", "1", "0", ":", "0", "0", ":", "0", "3", " ", "+", "0", "1", "0",
    "0", "]", " ", "m">>

\* "10:00:04.000000 s": a time of day with microseconds (entry 11).
LineMicro ==
  <<"1", "0", ":", "0", "0", ":", "0", "4", ".", "0", "0", "0", "0", "0",
    "0", " ", "s">>

\* "0000-01-01 10:00:00 z": entry 5 with the year 0000 written out.
LineYearZero ==
  <<"0", "0", "0", "0", "-", "0", "1", "-", "0", "1", " ", "1", "0", ":",
    "0", "0", ":", "0", "0", " ", "z">>

\* The lines given to parseLogLine.  Line k, for k up to 12, has the shape of
\* table entry k with valid date and time fields.
parseText ==
  <<LineSyslog, LineZone, LineComma, LineDot, LineHello, LineIsoComma,
    LineIsoDot, LineIso, LineHttp, LineHttpZone, LineMicro, LineStrace,
    LineTrace, LineBadMonth, LineBadMonthT, LineYearZero>>

\* Every line above.
tableLines == Range(lineText) \cup Range(parseText) \cup {LineTwoStamps}

\* pattern.regex.FindStringIndex(line) for every entry of the table, computed
\* once for the lines above.
matchTable ==
  [l \in tableLines |->
     [i \in DOMAIN timestampPatterns |->
        FindStringIndex(timestampPatterns[i].regex, l)]]

regexFind(i, line) ==
  IF line \in DOMAIN matchTable THEN matchTable[line][i]
  ELSE FindStringIndex(timestampPatterns[i].regex, line)

\* time.Parse of every match above with the layout of its entry, computed
\* once.
parseTable ==
  [k \in {<<timestampPatterns[i].layout,
            Slice(l, matchTable[l][i][1], matchTable[l][i][2])>> :
            <<l, i>> \in {x \in tableLines \X DOMAIN timestampPatterns :
                            matchTable[x[1]][x[2]] # nil}} |->
     timeParse(k[1], k[2])]

parse(layout, value) ==
  IF <<layout, value>> \in DOMAIN parseTable THEN parseTable[<<layout, value>>]
  ELSE timeParse(layout, value)

(***************************************************************************)
(* The classifier                                                          *)
(***************************************************************************)
NoError == "nil"

NoTimestampError == "no Timestamp in Line"

EndOfFileError == "end of file"

OpenError == "open failed"

\* var currentYear int = time.Now().Year()
currentYear == 2026

\* main.go line 51: does the match loc replace the best match so far?
replacesBest(loc, resLoc) ==
  \/ resLoc = nil
  \/ loc[1] < resLoc[1]
  \/ loc[2] - loc[1] > resLoc[2] - resLoc[1]

\* The loop of findBestMatch over the matches of the table's entries, in
\* table order; locs[i] is the match of entry i, or nil.
RECURSIVE scanPatterns(_, _, _)
scanPatterns(locs, i, best) ==
  IF i > Len(locs) THEN best
  ELSE IF locs[i] = nil THEN scanPatterns(locs, i + 1, best)
  ELSE IF replacesBest(locs[i], best.resLoc)
    THEN scanPatterns(locs, i + 1,
                      [index |-> i, resLoc |-> locs[i], err |-> NoError])
  ELSE scanPatterns(locs, i + 1, best)

\* With no match the index keeps Go's zero value, the first entry.
noMatch == [index |-> 1, resLoc |-> nil, err |-> NoTimestampError]

bestOf(locs) == scanPatterns(locs, 1, noMatch)

findBestMatch(line) ==
  With([i \in DOMAIN timestampPatterns |-> regexFind(i, line)],
       LAMBDA locs : bestOf(locs))

\* extractTimestamp dropping the separator that follows the match as well.
extractTrimmed(line, loc, layout) ==
  With(parse(layout, Slice(line, loc[1], loc[2])),
       LAMBDA r :
         IF ~r.ok
           THEN [timestamp |-> ZeroTime, remaining |-> line,
                 err |-> NoTimestampError]
           ELSE [timestamp |-> IF Year(r.t) = 0
                                 THEN AddDate(r.t, currentYear) ELSE r.t,
                 remaining |-> Slice(line, 0, loc[1])
                                 \o Slice(line, loc[2] + 1, Len(line)),
                 err |-> NoError])

\* Lines 65-74.
extractTimestamp(line, loc, layout) ==
  With(parse(layout, Slice(line, loc[1], loc[2])),
       LAMBDA r :
         IF ~r.ok
           THEN [timestamp |-> ZeroTime, remaining |-> line,
                 err |-> NoTimestampError]
           ELSE [timestamp |-> IF Year(r.t) = 0
                                 THEN AddDate(r.t, currentYear) ELSE r.t,
                 remaining |-> Slice(line, 0, loc[1])
                                 \o Slice(line, loc[2], Len(line)),
                 err |-> NoError])

mapPut(m, k, v) == [x \in DOMAIN m \cup {k} |-> IF x = k THEN v ELSE m[x]]

\* Lines 83-92: the entry cached for the file matched at hloc.
parseHinted(line, fileIndex, lfi, hloc) ==
  With(extractTimestamp(line, hloc, timestampPatterns[lfi[fileIndex]].layout),
       LAMBDA r :
         [timestamp |-> r.timestamp, remaining |-> r.remaining, err |-> r.err,
          lfi |-> lfi, hit |-> r.err = NoError, path |-> "hint",
          pattern |-> lfi[fileIndex]])

\* Lines 96-104: the full scan, m being the result of findBestMatch.
parseScanned(line, fileIndex, lfi, m) ==
  IF m.err = NoError
    THEN With(extractTimestamp(line, m.resLoc,
                               timestampPatterns[m.index].layout),
              LAMBDA r :
                [timestamp |-> r.timestamp, remaining |-> r.remaining,
                 err |-> NoError,  \* "return timestamp, remaining, nil"
                 lfi |-> IF r.err = NoError
                           THEN mapPut(lfi, fileIndex, m.index) ELSE lfi,
                 hit |-> FALSE, path |-> "scan", pattern |-> m.index])
    ELSE [timestamp |-> ZeroTime, remaining |-> line,
          err |-> NoTimestampError, lfi |-> lfi, hit |-> FALSE,
          path |-> "scan", pattern |-> 0]

\* parseLogLine without lines 83-92: the cached entry is never tried.
scanAlways(line, fileIndex, lfi) ==
  With(findBestMatch(line), LAMBDA m : parseScanned(line, fileIndex, lfi, m))

\* parseLogLine(line, fileIndex) with logFormatIndexes = lfi: the three
\* results, the map afterwards, whether cacheHits was incremented, and the
\* path taken ("hint" or "scan") with the entry it selected (0: none).
parseLogLine(line, fileIndex, lfi) ==
  With(IF fileIndex \in DOMAIN lfi THEN regexFind(lfi[fileIndex], line)
                                   ELSE nil,
       LAMBDA hloc :
         IF hloc # nil THEN parseHinted(line, fileIndex, lfi, hloc)
         ELSE With(findBestMatch(line),
                   LAMBDA m : parseScanned(line, fileIndex, lfi, m)))

\* What readNextTimestamp does with the outcome r of parseLogLine on line
\* number pos + 1: return it, or go on with the next line.
RECURSIVE readLoop(_, _, _, _, _)

\* The loop body of the earlier readNextTimestamp (unnamed/part_001 lines
\* 62-70): a line without timestamp is passed over and the next one read.
readStepSkipping(lines, pos, fileIndex, parsed, r) ==
  LET seen == Append(parsed, [err |-> r.err, timestamp |-> r.timestamp,
                              hit |-> r.hit, path |-> r.path,
                              pattern |-> r.pattern,
                              hint |-> IF fileIndex \in DOMAIN r.lfi
                                         THEN r.lfi[fileIndex] ELSE 0])
  IN IF r.err = NoError
       THEN [timestamp |-> r.timestamp, restOfLine |-> r.remaining,
             err |-> NoError, pos |-> pos + 1, lfi |-> r.lfi, parsed |-> seen]
       ELSE readLoop(lines, pos + 1, fileIndex, r.lfi, seen)

readStep(lines, pos, fileIndex, parsed, r) ==
  LET seen == Append(parsed, [err |-> r.err, timestamp |-> r.timestamp,
                              hit |-> r.hit, path |-> r.path,
                              pattern |-> r.pattern,
                              hint |-> IF fileIndex \in DOMAIN r.lfi
                                         THEN r.lfi[fileIndex] ELSE 0])
  IN IF r.err = NoError
       THEN [timestamp |-> r.timestamp, restOfLine |-> r.remaining,
             err |-> NoError, pos |-> pos + 1, lfi |-> r.lfi, parsed |-> seen]
     ELSE IF r.err = NoTimestampError
       THEN [timestamp |-> ZeroTime, restOfLine |-> r.remaining,
             err |-> NoTimestampError, pos |-> pos + 1, lfi |-> r.lfi,
             parsed |-> seen]
     ELSE readLoop(lines, pos + 1, fileIndex, r.lfi, seen)

\* readNextTimestamp on a scanner that has delivered pos lines of `lines`
\* (scanner.Scan() is false at the end of the file and on a read fault
\* alike): the results, the scanner's position afterwards and what
\* parseLogLine did to the globals.  `parsed` lists, for every line parsed,
\* the error and the timestamp returned, the cache hit, the path, the entry
\* selected and the file's entry in logFormatIndexes afterwards (0: none).
readLoop(lines, pos, fileIndex, lfi, parsed) ==
  IF pos >= Len(lines)
    THEN [timestamp |-> ZeroTime, restOfLine |-> <<>>, err |-> EndOfFileError,
          pos |-> pos, lfi |-> lfi, parsed |-> parsed]
    ELSE With(parseLogLine(lineText[lines[pos + 1]], fileIndex, lfi),
              LAMBDA r : readStep(lines, pos, fileIndex, parsed, r))

readNextTimestamp(lines, pos, fileIndex, lfi) ==
  readLoop(lines, pos, fileIndex, lfi, <<>>)

(***************************************************************************)
(* Bounds of the model and the inputs of a run                             *)
(***************************************************************************)
MaxFiles == 2

MaxTotalLines == 3

RECURSIVE sumTo(_, _)
sumTo(f, n) == IF n = 0 THEN 0 ELSE f[n] + sumTo(f, n - 1)

Instant(sec) == Time(2024, 1, 1, 10, 0, sec, 0, 0)

\* The paths given on the command line, by position: "logs/app.log",
\* "a-very-long-service-name.log", "c.log" and "d.log".
fileNames ==
  << <<"l","o","g","s","/","a","p","p",".","l","o","g">>,
     <<"a","-","v","e","r","y","-","l","o","n","g","-","s","e","r","v","i",
       "c","e","-","n","a","m","e",".","l","o","g">>,
     <<"c",".","l","o","g">>,
     <<"d",".","l","o","g">> >>

\* The window <<startTime, endTime>> as mergeLogs receives it, a zero time
\* being a bound that is not set: no window, a start only, an end only, a
\* window holding both instants of the input lines, a window of one
\* instant, and a start after the end.
Windows ==
  {<<ZeroTime, ZeroTime>>, <<Instant(5), ZeroTime>>, <<ZeroTime, Instant(0)>>,
   <<Instant(0), Instant(5)>>, <<Instant(5), Instant(5)>>,
   <<Instant(9), Instant(0)>>}

VARIABLES
  allFiles,          \* the files named on the command line: [name, exists, lines]
  startTime,         \* parameters of mergeLogs
  endTime,
  scanners,          \* mergeLogs: per file nil or [pos |-> lines delivered]
  filenames,
  fileErrors,
  timestamps,
  restOfLines,
  seedIndex,         \* the loop variable of the seeding loop
  earliestIndex,     \* locals of the merge loop
  earliestTime,
  logFormatIndexes,  \* package variables
  processedLines,
  cacheHits,
  pc,                \* where mergeLogs is
  closed,            \* how often close(ch) was executed
  cpc,               \* where the consumer loop of main is
  line,              \* the record the consumer holds
  printed,           \* the records written to standard output
  reported,          \* the counters main writes at its end, under -v: nil
                     \* or [lines, hits]
  logged,            \* the messages written to the logger; one marked
                     \* verbose is written only when -v is given
  sent,              \* history: the records sent, with file and line number
  reads,             \* history: per file, the outcome of every line parsed
  matchLocs,         \* findBestMatch alone: the match of every pattern
  matchResult,       \* findBestMatch alone: its three results
  matchPc,           \* findBestMatch alone: "idle", "call" or "return"
  selected,          \* history: the lines selected by the loop and not
                     \* ending it, as [file, lineNo]
  parseLines,        \* parseLogLine alone: the lines of one file
  parseFile,         \* parseLogLine alone: the file's index
  parseOut           \* parseLogLine alone: what each call returned and did

vars ==
  <<allFiles, startTime, endTime, scanners, filenames, fileErrors,
    timestamps, restOfLines, seedIndex, earliestIndex, earliestTime,
    logFormatIndexes,
    processedLines, cacheHits, pc, closed, cpc, line, printed, reported, logged,
    sent,
    reads, matchLocs, matchResult, matchPc, selected, parseLines, parseFile,
    parseOut>>

matchVars == <<matchLocs, matchResult, matchPc>>

parseVars == <<parseLines, parseFile, parseOut>>

inputs == <<allFiles, startTime, endTime>>

producerVars ==
  <<scanners, filenames, fileErrors, timestamps, restOfLines, seedIndex,
    earliestIndex, earliestTime, logFormatIndexes, processedLines, cacheHits, logged, reads>>

consumerVars == <<line, printed, reported>>

N == Len(allFiles)

lineStruct(ts, name, rest) ==
  [timestamp |-> ts, filename |-> name, restOfLine |-> rest]

\* The files of a run: n files, file i holding lens[i] lines cut in order
\* from flat; a file that cannot be opened has no lines.
mkFiles(n, lens, flat, exists) ==
  [i \in 1..n |->
     [name |-> fileNames[i], exists |-> exists[i],
      lines |-> SubSeq(flat, sumTo(lens, i - 1) + 1, sumTo(lens, i))]]

matchIdle ==
  /\ matchLocs = <<>>
  /\ matchResult = noMatch
  /\ matchPc = "idle"

parseIdle ==
  /\ parseLines = <<>>
  /\ parseFile = 0
  /\ parseOut = <<>>

Init ==
  /\ matchIdle
  /\ parseIdle
  /\ selected = <<>>
  /\ \E n \in 0..MaxFiles :
       \E lens \in [1..n -> 0..MaxTotalLines], exists \in [1..n -> BOOLEAN] :
         /\ sumTo(lens, n) <= MaxTotalLines
         /\ \A i \in 1..n : ~exists[i] => lens[i] = 0
         /\ \E flat \in [1..sumTo(lens, n) -> InputLines] :
              allFiles = mkFiles(n, lens, flat, exists)
  /\ \E w \in Windows : startTime = w[1] /\ endTime = w[2]
  /\ scanners = <<>>
  /\ filenames = <<>>
  /\ fileErrors = <<>>
  /\ timestamps = <<>>
  /\ restOfLines = <<>>
  /\ seedIndex = 0
  /\ earliestIndex = 0
  /\ earliestTime = ZeroTime
  /\ logFormatIndexes = <<>>
  /\ processedLines = 0
  /\ cacheHits = 0
  /\ pc = "open"
  /\ closed = 0
  /\ cpc = "recv"
  /\ line = lineStruct(ZeroTime, <<>>, <<>>)
  /\ printed = <<>>
  /\ reported = nil
  /\ logged = <<>>
  /\ sent = <<>>
  /\ reads = <<>>

(***************************************************************************)
(* mergeLogs                                                               *)
(***************************************************************************)
\* filepath.Base on a slash-separated path: trailing slashes are dropped,
\* then everything up to the last slash.
RECURSIVE stripSlashes(_)
stripSlashes(path) ==
  IF path # <<>> /\ path[Len(path)] = "/"
    THEN stripSlashes(Slice(path, 0, Len(path) - 1))
    ELSE path

RECURSIVE lastElement(_, _)
lastElement(path, i) ==
  IF i >= 1 /\ path[i] # "/" THEN lastElement(path, i - 1)
  ELSE Slice(path, i, Len(path))

Base(path) ==
  IF path = <<>> THEN <<".">>
  ELSE With(stripSlashes(path),
            LAMBDA p : With(lastElement(p, Len(p)),
                            LAMBDA e : IF e = <<>> THEN <<"/">> ELSE e))

\* Lines 138-153: the slices are made and every file is opened.
OpenFiles ==
  /\ pc = "open"
  /\ scanners' = [i \in 1..N |-> IF allFiles[i].exists THEN [pos |-> 0] ELSE nil]
  /\ filenames' = [i \in 1..N |-> IF allFiles[i].exists
                                     THEN Base(allFiles[i].name) ELSE <<>>]
  /\ fileErrors' = [i \in 1..N |-> IF allFiles[i].exists THEN NoError ELSE OpenError]
  /\ logged' = logged \o
       SelectSeq([i \in 1..N |-> [level |-> "error", file |-> i,
                                   verbose |-> FALSE]],
                 LAMBDA e : ~allFiles[e.file].exists)
  /\ timestamps' = [i \in 1..N |-> ZeroTime]
  /\ restOfLines' = [i \in 1..N |-> <<>>]
  /\ reads' = [i \in 1..N |-> <<>>]
  /\ seedIndex' = 1
  /\ pc' = IF N = 0 THEN "select" ELSE "seed"
  /\ UNCHANGED <<inputs, matchVars, parseVars, selected, earliestIndex, earliestTime, logFormatIndexes,
                 processedLines, cacheHits, closed, cpc, consumerVars, sent>>

\* afterRead with one error slot for all the files: the end of one file
\* retires every file.
afterReadShared(st, i, r, ts, err) ==
  [st EXCEPT !.scanners[i] = [pos |-> r.pos],
             !.timestamps[i] = ts,
             !.restOfLines[i] = r.restOfLine,
             !.fileErrors = [j \in DOMAIN @ |->
                               IF j = i \/ err = EndOfFileError
                                 THEN err ELSE @[j]],
             !.lfi = r.lfi,
             !.processedLines = @ + Len(r.parsed),
             !.cacheHits = @ + Cardinality({k \in DOMAIN r.parsed : r.parsed[k].hit}),
             !.reads[i] = @ \o r.parsed]

\* The state one call of readNextTimestamp for file i leaves behind, the
\* three results assigned as the caller assigns them.
afterRead(st, i, r, ts, err) ==
  [st EXCEPT !.scanners[i] = [pos |-> r.pos],
             !.timestamps[i] = ts,
             !.restOfLines[i] = r.restOfLine,
             !.fileErrors[i] = err,
             !.lfi = r.lfi,
             !.processedLines = @ + Len(r.parsed),
             !.cacheHits = @ + Cardinality({k \in DOMAIN r.parsed : r.parsed[k].hit}),
             !.reads[i] = @ \o r.parsed]

mergeState ==
  [scanners |-> scanners, timestamps |-> timestamps,
   restOfLines |-> restOfLines, fileErrors |-> fileErrors,
   lfi |-> logFormatIndexes, processedLines |-> processedLines,
   cacheHits |-> cacheHits, reads |-> reads]

setMergeState(st) ==
  /\ scanners' = st.scanners
  /\ timestamps' = st.timestamps
  /\ restOfLines' = st.restOfLines
  /\ fileErrors' = st.fileErrors
  /\ logFormatIndexes' = st.lfi
  /\ processedLines' = st.processedLines
  /\ cacheHits' = st.cacheHits
  /\ reads' = st.reads

\* The seeding loop reading two records of every file.
SeedTwice ==
  /\ pc = "seed"
  /\ \E i \in {seedIndex} :
       /\ IF scanners[i] # nil
            THEN \E r \in {readNextTimestamp(allFiles[i].lines, scanners[i].pos,
                                             i, logFormatIndexes)} :
                 \E st \in {afterRead(mergeState, i, r, r.timestamp, r.err)} :
                 \E r2 \in {readNextTimestamp(allFiles[i].lines, r.pos, i,
                                              r.lfi)} :
                 \E st2 \in {afterRead(st, i, r2, r2.timestamp, r2.err)} :
                   setMergeState(st2)
            ELSE UNCHANGED <<scanners, timestamps, restOfLines, fileErrors,
                             logFormatIndexes, processedLines, cacheHits, reads>>
       /\ seedIndex' = i + 1
       /\ pc' = IF i = N THEN "select" ELSE "seed"
  /\ UNCHANGED <<inputs, matchVars, parseVars, selected, filenames,
                 earliestIndex, earliestTime, closed, cpc, consumerVars,
                 logged, sent>>

\* Lines 159-163: one pass of the seeding loop, the first record of file
\* seedIndex if it was opened; all three results of readNextTimestamp are
\* stored, the error included.
Seed ==
  /\ pc = "seed"
  /\ \E i \in {seedIndex} :
       /\ IF scanners[i] # nil
            THEN \E r \in {readNextTimestamp(allFiles[i].lines, scanners[i].pos,
                                             i, logFormatIndexes)} :
                   \E st \in {afterRead(mergeState, i, r, r.timestamp, r.err)} :
                     setMergeState(st)
            ELSE UNCHANGED <<scanners, timestamps, restOfLines, fileErrors,
                             logFormatIndexes, processedLines, cacheHits, reads>>
       /\ seedIndex' = i + 1
       /\ pc' = IF i = N THEN "select" ELSE "seed"
  /\ UNCHANGED <<inputs, matchVars, parseVars, selected, filenames, earliestIndex, earliestTime, closed, cpc,
                 consumerVars, logged, sent>>

\* The scan of lines 171-179 with After for Before: it finds the latest
\* pending timestamp.
RECURSIVE findLatest(_, _, _, _)
findLatest(ts, errs, i, best) ==
  IF i > Len(ts) THEN best
  ELSE IF errs[i] = NoError /\ (~best.found \/ After(ts[i], best.earliestTime))
    THEN findLatest(ts, errs, i + 1,
           [found |-> TRUE, earliestIndex |-> i, earliestTime |-> ts[i]])
  ELSE findLatest(ts, errs, i + 1, best)

\* The scan of lines 171-179 with "not after" for Before: among equal
\* timestamps the last file wins.
RECURSIVE findLastEarliest(_, _, _, _)
findLastEarliest(ts, errs, i, best) ==
  IF i > Len(ts) THEN best
  ELSE IF errs[i] = NoError /\ (~best.found \/ ~After(ts[i], best.earliestTime))
    THEN findLastEarliest(ts, errs, i + 1,
           [found |-> TRUE, earliestIndex |-> i, earliestTime |-> ts[i]])
  ELSE findLastEarliest(ts, errs, i + 1, best)

\* The scan of lines 171-179 with the test of line 172 weakened: every file
\* that was opened is scanned, whatever its error slot holds now.
RECURSIVE findAmongOpened(_, _, _, _)
findAmongOpened(ts, errs, i, best) ==
  IF i > Len(ts) THEN best
  ELSE IF errs[i] # OpenError
          /\ (~best.found \/ Before(ts[i], best.earliestTime))
    THEN findAmongOpened(ts, errs, i + 1,
           [found |-> TRUE, earliestIndex |-> i, earliestTime |-> ts[i]])
  ELSE findAmongOpened(ts, errs, i + 1, best)

\* Lines 171-179: the scan for the earliest pending timestamp among the
\* files whose error slot is nil.
RECURSIVE findEarliest(_, _, _, _)
findEarliest(ts, errs, i, best) ==
  IF i > Len(ts) THEN best
  ELSE IF errs[i] = NoError /\ (~best.found \/ Before(ts[i], best.earliestTime))
    THEN findEarliest(ts, errs, i + 1,
           [found |-> TRUE, earliestIndex |-> i, earliestTime |-> ts[i]])
  ELSE findEarliest(ts, errs, i + 1, best)

\* The scan of lines 171-179 taking turns: when the file selected in the
\* pass before is found again and another file has the same timestamp
\* pending, the other file is selected.
earliestTakingTurns ==
  With(findEarliest(timestamps, fileErrors, 1,
                    [found |-> FALSE, earliestIndex |-> 0,
                     earliestTime |-> ZeroTime]),
       LAMBDA e :
         LET others == {j \in DOMAIN timestamps :
                          /\ j # e.earliestIndex
                          /\ fileErrors[j] = NoError
                          /\ ~After(timestamps[j], e.earliestTime)}
         IN IF e.found /\ e.earliestIndex = earliestIndex /\ others # {}
              THEN [e EXCEPT !.earliestIndex = CHOOSE j \in others : TRUE,
                             !.earliestTime =
                               timestamps[CHOOSE j \in others : TRUE]]
              ELSE e)

earliest ==
  findEarliest(timestamps, fileErrors, 1,
               [found |-> FALSE, earliestIndex |-> 0, earliestTime |-> ZeroTime])

\* Line 186: the end of the window is passed.
pastEnd(t) == ~IsZero(endTime) /\ After(t, endTime)

\* Line 190 without its condition: every record is sent.
anyStart(t) == TRUE

\* Line 190: the record is not before the start of the window.
fromStart(t) == IsZero(startTime) \/ ~Before(t, startTime)

\* Lines 181-192 with the check of line 190 moved before the check of line
\* 186: a record before the start never ends the loop.
startCheckedFirst(e) ==
  IF ~e.found THEN "close"
  ELSE IF ~fromStart(e.earliestTime) THEN "advance"
  ELSE IF pastEnd(e.earliestTime) THEN "close"
  ELSE "send"

\* Lines 181-192 with a return for the break of line 187: past the end of
\* the window mergeLogs is left without close(ch).
returnsPastEnd(e) ==
  IF ~e.found THEN "close"
  ELSE IF pastEnd(e.earliestTime) THEN "done"
  ELSE IF fromStart(e.earliestTime) THEN "send"
  ELSE "advance"

\* Lines 181-192: where the loop goes with the result e of the scan: out
\* of the loop to close(ch), to the send, or past it.
loopDecision(e) ==
  IF ~e.found THEN "close"
  ELSE IF pastEnd(e.earliestTime) THEN "close"
  ELSE IF fromStart(e.earliestTime) THEN "send"
  ELSE "advance"

\* Lines 166-190: one pass from the top of the loop to the send, the break
\* or the suppressed record.
Select ==
  /\ pc = "select"
  /\ \E e \in {earliest} :
        /\ earliestIndex' = e.earliestIndex
        /\ earliestTime' = e.earliestTime
        /\ pc' = loopDecision(e)
        /\ selected' =
             IF loopDecision(e) \in {"send", "advance"}
               THEN Append(selected,
                           [file |-> e.earliestIndex,
                            lineNo |-> scanners[e.earliestIndex].pos])
               ELSE selected
  /\ UNCHANGED <<inputs, matchVars, parseVars, scanners, filenames, fileErrors, timestamps,
                 restOfLines, seedIndex, logFormatIndexes, processedLines,
                 cacheHits, closed, cpc, consumerVars, logged, sent, reads>>

\* Line 191 on a channel that takes the record whether or not the consumer
\* is at its receive.
SendUnblocked ==
  /\ pc = "send"
  /\ \E rec \in {lineStruct(earliestTime, filenames[earliestIndex],
                             restOfLines[earliestIndex])} :
       /\ line' = rec
       /\ sent' = Append(sent,
                    [rec |-> rec, file |-> earliestIndex,
                     lineNo |-> scanners[earliestIndex].pos])
  /\ pc' = "advance"
  /\ cpc' = "print"
  /\ UNCHANGED <<inputs, matchVars, parseVars, selected, producerVars, closed,
                 printed, reported>>

\* Line 191 and line 274: the channel is unbuffered, so the send and the
\* receive of the consumer loop are one step.
\* A send on a closed channel panics.
Send ==
  /\ pc = "send"
  /\ IF closed > 0
       THEN /\ pc' = "panic"
            /\ UNCHANGED <<cpc, line, sent>>
       ELSE /\ cpc = "recv"
            /\ \E rec \in {lineStruct(earliestTime, filenames[earliestIndex],
                                       restOfLines[earliestIndex])} :
                 /\ line' = rec
                 /\ sent' = Append(sent,
                              [rec |-> rec, file |-> earliestIndex,
                               lineNo |-> scanners[earliestIndex].pos])
            /\ pc' = "advance"
            /\ cpc' = "print"
  /\ UNCHANGED <<inputs, matchVars, parseVars, selected, producerVars, closed, printed,
                 reported>>

\* Lines 198-199 without the condition of line 198: the timestamp returned
\* is stored whatever the error.
storedTimestamp(r, old) == r.timestamp

\* Lines 198-199 and 207: the pending timestamp of the file after a read.
keptTimestamp(r, old) == IF r.err = NoError THEN r.timestamp ELSE old

\* Lines 198-206: the error slot of the file after a read; a line without
\* timestamp leaves it as it is.
keptError(r, old) == IF r.err \in {NoError, NoTimestampError} THEN old ELSE r.err

\* Lines 194-208: the next record of the file just selected.
Advance ==
  /\ pc = "advance"
  /\ IF fileErrors[earliestIndex] = NoError
       THEN \E i \in {earliestIndex} :
            \E r \in {readNextTimestamp(allFiles[i].lines, scanners[i].pos, i,
                                        logFormatIndexes)} :
               /\ \E st \in {afterRead(mergeState, i, r,
                                        keptTimestamp(r, timestamps[i]),
                                        keptError(r, fileErrors[i]))} :
                    setMergeState(st)
               /\ logged' = IF r.err \notin {NoError, NoTimestampError}
                              THEN Append(logged, [level |-> "warn", file |-> i,
                                                   verbose |-> TRUE])
                              ELSE logged
       ELSE UNCHANGED <<scanners, timestamps, restOfLines, fileErrors,
                        logFormatIndexes, processedLines, cacheHits, reads,
                        logged>>
  /\ pc' = "select"
  /\ UNCHANGED <<inputs, matchVars, parseVars, selected, filenames, seedIndex, earliestIndex, earliestTime,
                 closed, cpc, consumerVars, sent>>

\* Line 210 left out: mergeLogs returns without close(ch).
ReturnWithoutClose ==
  /\ pc = "close"
  /\ pc' = "done"
  /\ UNCHANGED <<inputs, matchVars, parseVars, selected, producerVars, closed,
                 cpc, consumerVars, sent>>

\* Line 210.
Close ==
  /\ pc = "close"
  /\ closed' = closed + 1
  /\ pc' = "done"
  /\ UNCHANGED <<inputs, matchVars, parseVars, selected, producerVars, cpc, consumerVars, sent>>

(***************************************************************************)
(* The consumer loop of main                                               *)
(***************************************************************************)
\* The last 20 characters of the filename.
getFilenamePrefix(filename) ==
  IF Len(filename) > 20
    THEN Slice(filename, Len(filename) - 20, Len(filename))
    ELSE filename

\* Lines 275-276 printing from the slots of mergeLogs, not from the record
\* received.
PrintShared ==
  /\ cpc = "print"
  /\ printed' = Append(printed,
                       lineStruct(line.timestamp,
                                  getFilenamePrefix(line.filename),
                                  restOfLines[earliestIndex]))
  /\ cpc' = "recv"
  /\ UNCHANGED <<inputs, matchVars, parseVars, selected, producerVars, pc,
                 closed, line, reported, sent>>

\* Lines 275-276: the received record is printed.
PrintLine ==
  /\ cpc = "print"
  /\ printed' = Append(printed, [line EXCEPT !.filename = getFilenamePrefix(@)])
  /\ cpc' = "recv"
  /\ UNCHANGED <<inputs, matchVars, parseVars, selected, producerVars, pc, closed, line,
                 reported, sent>>

\* Line 274: the range loop ends when the channel is closed.
EndOfRange ==
  /\ cpc = "recv"
  /\ closed > 0
  /\ cpc' = "done"
  /\ UNCHANGED <<inputs, matchVars, parseVars, selected, producerVars, pc, closed, consumerVars, sent>>

\* Lines 279-282 run without waiting for the end of the range loop.
ReportEarly ==
  /\ cpc \in {"recv", "done"}
  /\ reported = nil
  /\ reported' = [lines |-> processedLines, hits |-> cacheHits]
  /\ UNCHANGED <<inputs, matchVars, parseVars, selected, producerVars, pc,
                 closed, cpc, line, printed, sent>>

\* Lines 279-282: after the range loop main reads processedLines and
\* cacheHits and writes them to standard error (when -v is given).
Report ==
  /\ cpc = "done"
  /\ reported = nil
  /\ reported' = [lines |-> processedLines, hits |-> cacheHits]
  /\ UNCHANGED <<inputs, matchVars, parseVars, selected, producerVars, pc,
                 closed, cpc, line, printed, sent>>

Next ==
  \/ OpenFiles \/ Seed \/ Select \/ Send \/ Advance \/ Close
  \/ PrintLine \/ EndOfRange \/ Report

Spec == Init /\ [][Next]_vars

\* The goroutine of mergeLogs (line 272) and the loop of main (line 274);
\* the send is a step of both.
Producer == OpenFiles \/ Seed \/ Select \/ Send \/ Advance \/ Close

Consumer == Send \/ PrintLine \/ EndOfRange \/ Report

\* The Go scheduler lets every goroutine that can run take its next step.
FairSpec == Spec /\ WF_vars(Producer) /\ WF_vars(Consumer)

(***************************************************************************)
(* findBestMatch on its own                                                *)
(***************************************************************************)
MaxPatterns == 3

MaxOffset == 3

\* The matches of the table's entries on these lines, as the loop of
\* findBestMatch computes them.
lineLocs ==
  {[i \in DOMAIN timestampPatterns |-> regexFind(i, l)] :
     l \in {LineHello, LineTrace, LineBadMonthT, LineTwoStamps, LineStrace}}

Spans == {s \in (0..MaxOffset) \X (0..MaxOffset) : s[1] < s[2]}

\* Every table of up to MaxPatterns patterns matching, or not, anywhere in a
\* line of MaxOffset characters.
anyLocs == [1..MaxPatterns -> {nil} \cup Spans]

\* mergeLogs is not running.
mergeIdle ==
  /\ selected = <<>>
  /\ allFiles = <<>>
  /\ startTime = ZeroTime
  /\ endTime = ZeroTime
  /\ scanners = <<>>
  /\ filenames = <<>>
  /\ fileErrors = <<>>
  /\ timestamps = <<>>
  /\ restOfLines = <<>>
  /\ seedIndex = 0
  /\ earliestIndex = 0
  /\ earliestTime = ZeroTime
  /\ logFormatIndexes = <<>>
  /\ processedLines = 0
  /\ cacheHits = 0
  /\ pc = "idle"
  /\ closed = 0
  /\ cpc = "idle"
  /\ line = lineStruct(ZeroTime, <<>>, <<>>)
  /\ printed = <<>>
  /\ reported = nil
  /\ logged = <<>>
  /\ sent = <<>>
  /\ reads = <<>>

InitMatch ==
  /\ matchLocs \in lineLocs \cup anyLocs
  /\ matchResult = noMatch
  /\ matchPc = "call"
  /\ parseIdle
  /\ mergeIdle

\* Lines 44-58: one call of findBestMatch.
CallFindBestMatch ==
  /\ matchPc = "call"
  /\ matchResult' = bestOf(matchLocs)
  /\ matchPc' = "return"
  /\ UNCHANGED <<inputs, producerVars, pc, closed, cpc, consumerVars, sent,
                 matchLocs, parseVars, selected>>

NextMatch == CallFindBestMatch

SpecMatch == InitMatch /\ [][NextMatch]_vars

(***************************************************************************)
(* parseLogLine on its own: a sequence of calls for the lines of one file  *)
(***************************************************************************)
MaxParseLines == 3

ParseInputs == UNION {[1..n -> DOMAIN parseText] : n \in 0..MaxParseLines}

InitParse ==
  /\ parseLines \in ParseInputs
  /\ parseFile \in 1..MaxFiles
  /\ parseOut = <<>>
  /\ matchIdle
  /\ mergeIdle

\* Lines 76-105: one call of parseLogLine, on the next line of the file.
\* The results are recorded with the file's entry in logFormatIndexes before
\* and after the call (0: none).
CallParseLogLine ==
  /\ Len(parseOut) < Len(parseLines)
  /\ \E r \in {parseLogLine(parseText[parseLines[Len(parseOut) + 1]],
                             parseFile, logFormatIndexes)} :
       /\ logFormatIndexes' = r.lfi
       /\ processedLines' = processedLines + 1
       /\ cacheHits' = cacheHits + (IF r.hit THEN 1 ELSE 0)
       /\ parseOut' =
            Append(parseOut,
                   [timestamp |-> r.timestamp, remaining |-> r.remaining,
                    err |-> r.err, hit |-> r.hit, path |-> r.path,
                    pattern |-> r.pattern,
                    hintBefore |-> IF parseFile \in DOMAIN logFormatIndexes
                                     THEN logFormatIndexes[parseFile] ELSE 0,
                    hint |-> IF parseFile \in DOMAIN r.lfi
                               THEN r.lfi[parseFile] ELSE 0])
  /\ UNCHANGED <<inputs, matchVars, selected, parseLines, parseFile, scanners,
                 filenames, fileErrors, timestamps, restOfLines, seedIndex,
                 earliestIndex, earliestTime, logged, reads, pc, closed, cpc,
                 consumerVars, sent>>

NextParse == CallParseLogLine

SpecParse == InitParse /\ [][NextParse]_vars

(***************************************************************************)
(* The records of a source                                                 *)
(***************************************************************************)
\* The results of the successive calls of readNextTimestamp on a file read
\* from its first line, one for every line, each with the instant
\* mergeLogs keeps pending for it: its own after a nil error, else the one
\* kept before (lines 198-199 and 207).
RECURSIVE replay(_, _, _, _)
replay(lines, fileIndex, lfi, out) ==
  IF Len(out) >= Len(lines) THEN out
  ELSE With(readNextTimestamp(lines, Len(out), fileIndex, lfi),
            LAMBDA r :
              replay(lines, fileIndex, r.lfi,
                     Append(out,
                            [err |-> r.err, timestamp |-> r.timestamp,
                             restOfLine |-> r.restOfLine,
                             instant |-> IF r.err = NoError THEN r.timestamp
                                         ELSE IF out = <<>> THEN ZeroTime
                                         ELSE out[Len(out)].instant])))

records(i) == replay(allFiles[i].lines, i, <<>>, <<>>)

\* The instants of every source's successive records are non-decreasing.
SourcesSorted ==
  \A i \in 1..N :
    LET rs == records(i)
    IN \A n \in 2..Len(rs) : ~Before(rs[n].instant, rs[n - 1].instant)

\* The instant lies in the window, an unset bound being no bound.
inWindow(t) ==
  /\ IsZero(startTime) \/ ~Before(t, startTime)
  /\ IsZero(endTime) \/ ~After(t, endTime)

\* How often line n of file i was sent.
timesSent(i, n) ==
  Cardinality({k \in DOMAIN sent : sent[k].file = i /\ sent[k].lineNo = n})

\* Some source is alive and the pending instant of every source alive is
\* after the end of the window: the minimum the loop selects is.
minPastEnd ==
  /\ ~IsZero(endTime)
  /\ \E i \in DOMAIN fileErrors : fileErrors[i] = NoError
  /\ \A i \in DOMAIN fileErrors :
       fileErrors[i] = NoError => After(timestamps[i], endTime)

noneAlive == \A i \in DOMAIN fileErrors : fileErrors[i] # NoError

hintOf(lfi, i) == IF i \in DOMAIN lfi THEN lfi[i] ELSE 0

(***************************************************************************)
(* Properties                                                              *)
(***************************************************************************)
\* C1: when the instants of every source's successive records are
\* non-decreasing, continuation lines counted with the instant they
\* inherit, the records sent on the channel are non-decreasing by instant,
\* whatever the window.
C1_MergeOrder ==
  \/ \A k \in 2..Len(sent) :
       ~Before(sent[k].rec.timestamp, sent[k - 1].rec.timestamp)
  \/ ~SourcesSorted

\* Two sorted sources interleaved: the second file's record first, then the
\* first file's, then the second file's again.
C1_Witness ==
  /\ SourcesSorted
  /\ Len(sent) = 3
  /\ sent[1].file = 2 /\ sent[2].file = 1 /\ sent[3].file = 2
  /\ Before(sent[1].rec.timestamp, sent[2].rec.timestamp)

\* C2: a source whose last line read had no timestamp is not retired by it:
\* its error slot never holds the no-timestamp error, and while it has
\* lines left the source is alive.
C2_ContinuationKeepsSource ==
  \A i \in DOMAIN scanners :
    (/\ scanners[i] # nil
     /\ scanners[i].pos >= 1
     /\ reads[i][scanners[i].pos].err = NoTimestampError)
    => /\ fileErrors[i] # NoTimestampError
       /\ scanners[i].pos < Len(allFiles[i].lines) => fileErrors[i] = NoError

\* C3: the record sent for a line in which no timestamp was detected
\* carries the instant of the most recent line of its own source that was
\* returned with a timestamp, and the whole line as payload; parsing the
\* line left the format hint of the source as it was.
C3_ContinuationInherits ==
  \A k \in DOMAIN sent :
    LET i == sent[k].file
        n == sent[k].lineNo
        stamped == {m \in 1..(n - 1) : reads[i][m].err = NoError}
        last == CHOOSE m \in stamped : \A o \in stamped : o <= m
    IN reads[i][n].err = NoTimestampError =>
         /\ stamped # {}
         /\ sent[k].rec.timestamp = reads[i][last].timestamp
         /\ sent[k].rec.restOfLine = lineText[allFiles[i].lines[n]]
         /\ reads[i][n].hint = reads[i][n - 1].hint

\* A continuation line has just been sent while another source is alive
\* with a different instant pending.
C3_Witness ==
  /\ pc = "advance"
  /\ sent # <<>>
  /\ LET s == sent[Len(sent)]
     IN /\ reads[s.file][s.lineNo].err = NoTimestampError
        /\ \E j \in DOMAIN fileErrors \ {s.file} :
             /\ fileErrors[j] = NoError
             /\ timestamps[j] # s.rec.timestamp

\* C4: findBestMatch returns the match that starts at the smallest offset
\* and, among the matches starting there, the longest; without any match it
\* returns the no-timestamp error.
C4_EarliestLongest ==
  matchPc = "return" =>
    LET matching == {i \in DOMAIN matchLocs : matchLocs[i] # nil}
        res == matchResult
    IN IF matching = {} THEN res.err = NoTimestampError
       ELSE /\ res.err = NoError
            /\ res.index \in matching
            /\ res.resLoc = matchLocs[res.index]
            /\ \A i \in matching :
                 /\ res.resLoc[1] <= matchLocs[i][1]
                 /\ matchLocs[i][1] = res.resLoc[1] =>
                      matchLocs[i][2] <= res.resLoc[2]

\* C5: a line whose selected pattern matched but whose matched text the
\* layout does not parse is returned with the no-timestamp error.
C5_ParseFailureIsContinuation ==
  \A i \in DOMAIN reads : \A n \in DOMAIN reads[i] :
    LET e == reads[i][n]
        text == lineText[allFiles[i].lines[n]]
        loc == regexFind(e.pattern, text)
    IN (/\ e.pattern # 0
        /\ ~parse(timestampPatterns[e.pattern].layout,
                  Slice(text, loc[1], loc[2])).ok)
       => e.err = NoTimestampError

\* C6: every record sent has an instant not before startTime and not after
\* endTime, a zero bound restricting nothing.
C6_SentInWindow ==
  \A k \in DOMAIN sent :
    /\ IsZero(startTime) \/ ~Before(sent[k].rec.timestamp, startTime)
    /\ IsZero(endTime) \/ ~After(sent[k].rec.timestamp, endTime)

\* Both bounds are set, a record at the bounds was sent and a line with an
\* earlier instant was consumed without being sent.
C6_Witness ==
  /\ ~IsZero(startTime) /\ ~IsZero(endTime)
  /\ \E k \in DOMAIN sent :
       /\ sent[k].rec.timestamp = startTime
       /\ \E n \in 1..(sent[k].lineNo - 1) :
            /\ timesSent(sent[k].file, n) = 0
            /\ ~IsZero(records(sent[k].file)[n].instant)
            /\ Before(records(sent[k].file)[n].instant, startTime)

\* C7: when the minimum pending instant is after endTime the pass of the
\* loop that selects it leaves the loop, also when that instant is before
\* startTime; from there on nothing is sent and nothing is read, and
\* mergeLogs goes on to close the channel.
C7_EndStops ==
  [][/\ (pc = "select" /\ pc' # "select" /\ minPastEnd) =>
          (pc' = "close" /\ sent' = sent /\ scanners' = scanners)
     /\ pc \in {"close", "done"} =>
          /\ sent' = sent /\ scanners' = scanners /\ reads' = reads
          /\ pc' \in {"close", "done"}
     /\ (pc = "close" /\ pc' # "close") => (pc' = "done" /\ closed' = 1)
    ]_vars

\* The loop was left on a minimum after the end and before the start of the
\* window, with lines unread, and the channel is closed.
C7_Witness ==
  /\ pc = "done"
  /\ closed = 1
  /\ minPastEnd
  /\ Before(earliestTime, startTime)
  /\ sent = <<>>
  /\ \E i \in DOMAIN scanners :
       scanners[i] # nil /\ scanners[i].pos < Len(allFiles[i].lines)

\* C8: at the end of mergeLogs on sorted sources, every line whose record
\* instant lies in the window was sent exactly once, no other line was
\* sent, and the records of one source were sent in the order of its lines.
C8_EachLineOnce ==
  (pc = "done" /\ SourcesSorted) =>
    /\ \A i \in 1..N :
         LET rs == records(i)
         IN \A n \in 1..Len(rs) :
              timesSent(i, n) = IF inWindow(rs[n].instant) THEN 1 ELSE 0
    /\ \A k, l \in DOMAIN sent :
         (k < l /\ sent[k].file = sent[l].file) =>
           sent[k].lineNo < sent[l].lineNo

\* The sources that go on after the seeding of the pending records: the
\* file was opened and its first call of readNextTimestamp returned a
\* record with a nil error.
continues(i) ==
  /\ allFiles[i].exists
  /\ allFiles[i].lines # <<>>
  /\ records(i)[1].err = NoError

\* C9: a step that retires a source changes the pending record, the
\* scanner, the error slot and the format hint of no other source; and at
\* the end of mergeLogs on sorted sources every line in the window of
\* every source that went on was sent exactly once, in instant order,
\* whichever other sources failed to open or ran out.
C9_Isolation ==
  /\ [][\A i \in DOMAIN fileErrors :
          (/\ i \in DOMAIN fileErrors'
           /\ fileErrors[i] = NoError
           /\ fileErrors'[i] # NoError)
          => \A j \in DOMAIN fileErrors \ {i} :
               /\ timestamps'[j] = timestamps[j]
               /\ restOfLines'[j] = restOfLines[j]
               /\ scanners'[j] = scanners[j]
               /\ fileErrors'[j] = fileErrors[j]
               /\ reads'[j] = reads[j]
               /\ hintOf(logFormatIndexes', j) = hintOf(logFormatIndexes, j)
       ]_vars
  /\ []((pc = "done" /\ SourcesSorted) =>
          /\ \A j \in 1..N :
               continues(j) =>
                 \A n \in 1..Len(allFiles[j].lines) :
                   timesSent(j, n) =
                     IF inWindow(records(j)[n].instant) THEN 1 ELSE 0
          /\ \A k \in 2..Len(sent) :
               ~Before(sent[k].rec.timestamp, sent[k - 1].rec.timestamp))

\* The first file ran out after its only record while the second had a
\* record pending and a line unread; both records of the second were sent
\* after it.
C9_Witness ==
  /\ pc = "done"
  /\ N = 2
  /\ Len(allFiles[1].lines) = 1 /\ Len(allFiles[2].lines) = 2
  /\ fileErrors[1] = EndOfFileError
  /\ Len(sent) = 3
  /\ sent[1].file = 1 /\ sent[2].file = 2 /\ sent[3].file = 2

\* What the consumer loop has received: the records printed and the one it
\* holds.
received ==
  [k \in 1..Len(sent) |-> [sent[k].rec EXCEPT !.filename = getFilenamePrefix(@)]]

\* C10: close(ch) is executed at most once, and exactly once when
\* mergeLogs has ended, by whichever way the loop was left; nothing is
\* sent after it and no send meets a closed channel; the consumer loop
\* ends only on the closed channel, with every record sent printed, in the
\* order of the sends.
C10_ClosedOnce ==
  /\ [](/\ closed <= 1
        /\ pc # "panic"
        /\ pc = "done" <=> closed = 1
        /\ pc = "send" => (closed = 0 /\ cpc # "done")
        /\ Len(printed) + (IF cpc = "print" THEN 1 ELSE 0) = Len(sent)
        /\ printed = SubSeq(received, 1, Len(printed))
        /\ cpc = "print" => line = sent[Len(sent)].rec
        /\ cpc = "done" => (closed = 1 /\ printed = received))
  /\ [][/\ closed = 1 => (sent' = sent /\ closed' = 1)
        /\ (pc = "select" /\ pc' # "select" /\ (noneAlive \/ minPastEnd)) =>
             pc' = "close"
        /\ (pc = "close" /\ pc' # "close") => (pc' = "done" /\ closed' = 1)
        /\ (cpc = "recv" /\ cpc' # "recv" /\ closed = 1) => cpc' = "done"
       ]_vars

\* The loop was left past the end of the window after two sends, the
\* channel is closed and the consumer loop has ended.
C10_Witness ==
  /\ cpc = "done"
  /\ closed = 1
  /\ minPastEnd
  /\ Len(printed) = 2

\* C11: with finite files and both goroutines scheduled fairly mergeLogs
\* ends, the channel is closed and the consumer loop ends; every pass of
\* the loop that does not leave it selects exactly one line of one source,
\* never a line selected before, and the read that follows moves only that
\* source's scanner, by one line unless the file has ended; the loop is
\* left only when no source is alive or the minimum pending instant is
\* after endTime.
C11_Terminates ==
  /\ <>(pc = "done" /\ closed = 1 /\ cpc = "done")
  /\ [](\A k, l \in DOMAIN selected : selected[k] = selected[l] => k = l)
  /\ [][/\ (pc = "select" /\ pc' \in {"send", "advance"}) =>
             /\ Len(selected') = Len(selected) + 1
             /\ selected'[Len(selected')].file = earliestIndex'
             /\ selected'[Len(selected')].lineNo = scanners[earliestIndex'].pos
        /\ (pc = "select" /\ pc' = "close") =>
             (selected' = selected /\ (noneAlive \/ minPastEnd))
        /\ (pc = "select" /\ pc' # "select") => pc' \in {"send", "advance", "close"}
        /\ (pc = "advance" /\ pc' # "advance") =>
             /\ \A j \in DOMAIN scanners \ {earliestIndex} :
                  scanners'[j] = scanners[j]
             /\ \/ scanners'[earliestIndex].pos = scanners[earliestIndex].pos + 1
                \/ /\ scanners'[earliestIndex] = scanners[earliestIndex]
                   /\ fileErrors'[earliestIndex] = EndOfFileError
       ]_vars

\* Both files were read to their ends, three lines were selected and
\* printed, and both goroutines have ended.
C11_Witness ==
  /\ pc = "done" /\ cpc = "done"
  /\ N = 2
  /\ noneAlive
  /\ \A i \in 1..N : fileErrors[i] = EndOfFileError
  /\ Len(selected) = 3
  /\ Len(printed) = 3

\* The line of the k-th call of parseLogLine.
parsedText(k) == parseText[parseLines[k]]

\* Does time.Parse succeed on the match of entry i in the line?
parsesWith(i, text) ==
  /\ regexFind(i, text) # nil
  /\ parse(timestampPatterns[i].layout,
           Slice(text, regexFind(i, text)[1], regexFind(i, text)[2])).ok

\* C12: the hint of a file is the entry of its last successful full-scan
\* parse.  A line the hinted entry matches is handled by that entry alone:
\* the call returns its result, leaves the hint alone and counts a cache
\* hit exactly when the parse succeeded.  A line the hinted entry does not
\* match, or a file without a hint, goes to the full scan, which counts no
\* cache hit and sets the hint to the entry it selected exactly when that
\* entry's parse succeeded.  processedLines counts the calls and cacheHits
\* the hits.
C12_HintCaching ==
  /\ processedLines = Len(parseOut)
  /\ cacheHits = Cardinality({k \in DOMAIN parseOut : parseOut[k].hit})
  /\ \A k \in DOMAIN parseOut :
       LET o == parseOut[k]
           h == o.hintBefore
       IN /\ h = (IF k = 1 THEN 0 ELSE parseOut[k - 1].hint)
          /\ IF h # 0 /\ regexFind(h, parsedText(k)) # nil
               THEN /\ o.path = "hint"
                    /\ o.pattern = h
                    /\ o.hint = h
                    /\ o.hit <=> parsesWith(h, parsedText(k))
                    /\ o.hit <=> o.err = NoError
               ELSE /\ o.path = "scan"
                    /\ ~o.hit
                    /\ o.pattern = IF findBestMatch(parsedText(k)).err = NoError
                                     THEN findBestMatch(parsedText(k)).index
                                     ELSE 0
                    /\ o.hint = IF o.pattern # 0
                                    /\ parsesWith(o.pattern, parsedText(k))
                                  THEN o.pattern ELSE h

\* A full scan set the hint, the next line did not match it and a second
\* full scan replaced it, and the third line was a hit on the new hint.
C12_Witness ==
  /\ Len(parseOut) = 3
  /\ parseOut[1].path = "scan" /\ parseOut[1].hint # 0
  /\ parseOut[2].path = "scan" /\ parseOut[2].hint # 0
  /\ parseOut[2].hint # parseOut[1].hint
  /\ parseOut[3].path = "hint" /\ parseOut[3].hit
  /\ parseOut[3].pattern = parseOut[2].hint
  /\ cacheHits = 1

\* s with the string m inserted at offset a.
insertAt(s, a, m) == Slice(s, 0, a) \o m \o Slice(s, a, Len(s))

\* C13: when the entry selected for a line matches at [s, e) and parses,
\* the remainder returned is line[0..s) followed by line[e..end): it is
\* e - s characters shorter than the line, and the matched substring put
\* back at offset s gives the line again.
C13_Remainder ==
  \A k \in DOMAIN parseOut :
    (parseOut[k].pattern # 0 /\ parsesWith(parseOut[k].pattern, parsedText(k)))
    => LET text == parsedText(k)
           loc == regexFind(parseOut[k].pattern, text)
           rem == parseOut[k].remaining
       IN /\ rem = Slice(text, 0, loc[1]) \o Slice(text, loc[2], Len(text))
          /\ Len(rem) = Len(text) - (loc[2] - loc[1])
          /\ insertAt(rem, loc[1], Slice(text, loc[1], loc[2])) = text

\* A timestamp in the middle of a line was parsed: text remains on both
\* sides of it.
C13_Witness ==
  \E k \in DOMAIN parseOut :
    /\ parseOut[k].pattern # 0
    /\ parsesWith(parseOut[k].pattern, parsedText(k))
    /\ regexFind(parseOut[k].pattern, parsedText(k))[1] > 0
    /\ regexFind(parseOut[k].pattern, parsedText(k))[2] < Len(parsedText(k))
    /\ parseOut[k].err = NoError

\* Does the layout of entry i have a year component?
hasYear(i) ==
  \E c \in DOMAIN timestampPatterns[i].layout :
    timestampPatterns[i].layout[c] = "2006"

\* The instant time.Parse makes of the match of entry i in the line.
parsedInstant(i, text) ==
  parse(timestampPatterns[i].layout,
        Slice(text, regexFind(i, text)[1], regexFind(i, text)[2])).t

\* C14: the instant returned for a line parsed with a year-less layout has
\* the current year, and the instant returned for a line parsed with a
\* layout that has a year component has the year time.Parse read.
C14_YearRule ==
  \A k \in DOMAIN parseOut :
    (parseOut[k].pattern # 0 /\ parsesWith(parseOut[k].pattern, parsedText(k)))
    => Year(parseOut[k].timestamp) =
         IF hasYear(parseOut[k].pattern)
           THEN Year(parsedInstant(parseOut[k].pattern, parsedText(k)))
           ELSE currentYear

\* The instant written in line k of parseText, for the twelve lines that
\* have the shape of a table entry; a line without a year is of the current
\* year, a line without a date of its first day.
writtenInstant ==
  <<Time(currentYear, 1, 1, 10, 0, 1, 0, 0),
    Time(2024, 1, 1, 10, 0, 5, 0, 3600),
    Time(2024, 1, 1, 10, 0, 2, 123000000, 0),
    Time(2024, 1, 1, 10, 0, 2, 123000000, 0),
    Time(2024, 1, 1, 10, 0, 0, 0, 0),
    Time(2024, 1, 1, 10, 0, 2, 123000000, 0),
    Time(2024, 1, 1, 10, 0, 2, 123000000, 0),
    Time(2024, 1, 1, 10, 0, 2, 0, 0),
    Time(2024, 1, 1, 10, 0, 3, 0, 0),
    Time(2024, 1, 1, 10, 0, 3, 0, 3600),
    Time(currentYear, 1, 1, 10, 0, 4, 0, 0),
    Time(currentYear, 1, 1, 10, 0, 4, 0, 0)>>

\* C20: a line of the shape of table entry i with valid fields, given to the
\* full scan, is matched by entry i, the layout of entry i parses the whole
\* match, and the line is returned as timestamped with the instant written
\* in it.
C20_LayoutParsesMatch ==
  \A k \in DOMAIN parseOut :
    (parseLines[k] \in DOMAIN writtenInstant /\ parseOut[k].path = "scan")
    => /\ parseOut[k].pattern = parseLines[k]
       /\ parsesWith(parseLines[k], parsedText(k))
       /\ parseOut[k].err = NoError
       /\ absKey(parseOut[k].timestamp) = absKey(writtenInstant[parseLines[k]])

C16_MinSelection ==
  [][(pc = "select" /\ pc' # "select") =>
       IF noneAlive THEN pc' = "close"
       ELSE /\ earliestIndex' \in DOMAIN fileErrors
            /\ fileErrors[earliestIndex'] = NoError
            /\ earliestTime' = timestamps[earliestIndex']
            /\ \A j \in DOMAIN fileErrors :
                 fileErrors[j] = NoError =>
                   /\ ~Before(timestamps[j], earliestTime')
                   /\ j < earliestIndex' => After(timestamps[j], earliestTime')
            /\ pc' \in {"send", "advance"} =>
                 selected'[Len(selected')].file = earliestIndex'
    ]_vars

\* Two sources alive had the same instant pending and the first was
\* selected and is about to be sent.
C16_Witness ==
  /\ pc = "send"
  /\ N = 2
  /\ fileErrors[1] = NoError /\ fileErrors[2] = NoError
  /\ absKey(timestamps[1]) = absKey(timestamps[2])
  /\ earliestIndex = 1

\* C17: once the error slot of a source is set, no step changes it, reads
\* a line from the source, changes what is pending for it, selects it or
\* sends a record of it.
C17_RetirementPermanent ==
  [][\A i \in DOMAIN fileErrors :
       fileErrors[i] # NoError =>
         /\ fileErrors'[i] = fileErrors[i]
         /\ scanners'[i] = scanners[i]
         /\ reads'[i] = reads[i]
         /\ timestamps'[i] = timestamps[i]
         /\ restOfLines'[i] = restOfLines[i]
         /\ (pc = "select" /\ pc' \in {"send", "advance"}) => earliestIndex' # i
         /\ Len(selected') > Len(selected) =>
              selected'[Len(selected')].file # i
         /\ Len(sent') > Len(sent) => sent'[Len(sent')].file # i
    ]_vars

\* The first file has ended with an earlier instant left in its slot than
\* the one pending for the second file, which is selected.
C17_Witness ==
  /\ pc = "send"
  /\ N = 2
  /\ fileErrors[1] = EndOfFileError
  /\ earliestIndex = 2
  /\ Before(timestamps[1], earliestTime)
  /\ \E k \in DOMAIN selected : selected[k].file = 1

\* The lines read from source i whose record was not selected yet.
pendingCount(i) ==
  Len(reads[i]) - Cardinality({k \in DOMAIN selected : selected[k].file = i})

\* The seeding loop has just ended.
seeded == pc = "select" /\ selected = <<>> /\ fileErrors # <<>>

\* C18, as stated: for each source at most one line read is not selected
\* yet, and after seeding exactly one line has been read from every source
\* that was opened.
C18_OnePendingExactlyOne ==
  /\ \A i \in DOMAIN reads : pendingCount(i) \in {0, 1}
  /\ seeded => \A i \in DOMAIN scanners :
                 scanners[i] # nil => Len(reads[i]) = 1

\* C18, as the code has it: for each source at most one line read is not
\* selected yet and the scanner has delivered exactly the lines read; after
\* seeding one line has been read from every source that was opened and is
\* not empty, and none from an empty one or one that was not opened.
C18_OnePending ==
  /\ \A i \in DOMAIN reads :
       /\ pendingCount(i) \in {0, 1}
       /\ scanners[i] # nil => scanners[i].pos = Len(reads[i])
       /\ scanners[i] = nil => reads[i] = <<>>
  /\ seeded => \A i \in DOMAIN scanners :
                 Len(reads[i]) = IF scanners[i] # nil /\ allFiles[i].lines # <<>>
                                   THEN 1 ELSE 0

\* After seeding: an empty file was opened, nothing was read from it and
\* it is retired, and one line is pending for another file.
C18_Witness ==
  /\ seeded
  /\ N = 2
  /\ scanners[1] # nil /\ allFiles[1].lines = <<>>
  /\ reads[1] = <<>> /\ fileErrors[1] = EndOfFileError
  /\ Len(reads[2]) = 1 /\ fileErrors[2] = NoError

\* C19: the producer leaves its send only in a step in which the consumer,
\* waiting at its receive, takes the record; while the producer is at the
\* send no line is read from any source; and every record sent has been
\* printed, except the one the consumer is printing.
C19_Rendezvous ==
  /\ [](Len(sent) - Len(printed) = IF cpc = "print" THEN 1 ELSE 0)
  /\ [][pc = "send" =>
         /\ reads' = reads
         /\ scanners' = scanners
         /\ pc' # "send" =>
              /\ cpc = "recv" /\ cpc' = "print"
              /\ pc' = "advance"
              /\ Len(sent') = Len(sent) + 1
              /\ line' = sent'[Len(sent')].rec
              /\ line' = lineStruct(earliestTime, filenames[earliestIndex],
                                    restOfLines[earliestIndex])
       ]_vars

\* The producer is at its send with the next record while the consumer is
\* still printing the one before.
C19_Witness ==
  /\ pc = "send"
  /\ cpc = "print"
  /\ Len(sent) = 1
  /\ printed = <<>>

\* Source i was opened and its scanner has delivered every line of its
\* file: what retires it is the end of the file.
exhausted(i) == scanners[i] # nil /\ scanners[i].pos = Len(allFiles[i].lines)

\* C21: nothing is written to the logger, with or without the verbose flag,
\* for a source retired by the end of its file.
C21_ExhaustionSilent ==
  \A k \in DOMAIN logged :
    ~(exhausted(logged[k].file) /\ fileErrors[logged[k].file] = EndOfFileError)

\* Line n + 1 of file i was read and no timestamp was detected in it.
continuationFollows(i, n) ==
  n + 1 \in DOMAIN reads[i] /\ reads[i][n + 1].err = NoTimestampError

\* C22: when the line after a selected line of source i is a continuation
\* line, the next pass of the loop selects that line: the loop is not left
\* before it, and in the records sent no record comes between a line and
\* the continuation line that follows it.
C22_ContinuationAttached ==
  /\ \A k \in DOMAIN selected :
       continuationFollows(selected[k].file, selected[k].lineNo) =>
         IF k < Len(selected)
           THEN selected[k + 1] = [file |-> selected[k].file,
                                   lineNo |-> selected[k].lineNo + 1]
           ELSE pc \in {"select", "send", "advance"}
  /\ \A k \in DOMAIN sent :
       continuationFollows(sent[k].file, sent[k].lineNo) =>
         IF k < Len(sent)
           THEN /\ sent[k + 1].file = sent[k].file
                /\ sent[k + 1].lineNo = sent[k].lineNo + 1
                /\ sent[k + 1].rec.timestamp = sent[k].rec.timestamp
           ELSE pc \in {"select", "send", "advance"}

\* The continuation line of the first source is about to be sent, right
\* after the line it follows, while the second source has a record pending
\* with the same instant.
C22_Witness ==
  /\ pc = "send"
  /\ N = 2
  /\ earliestIndex = 1
  /\ sent # <<>>
  /\ sent[Len(sent)].file = 1
  /\ sent[Len(sent)].lineNo = scanners[1].pos - 1
  /\ reads[1][scanners[1].pos].err = NoTimestampError
  /\ fileErrors[2] = NoError
  /\ absKey(timestamps[2]) = absKey(timestamps[1])

\* Every line parsed so far, as <<file, line number>>.
linesRead == UNION {{<<i, n>> : n \in DOMAIN reads[i]} : i \in DOMAIN reads}

\* The lines parsed with the hinted entry, the parse succeeding.
hintedParses ==
  {x \in linesRead : /\ reads[x[1]][x[2]].path = "hint"
                     /\ reads[x[1]][x[2]].err = NoError}

\* C23: cacheHits is at most processedLines; processedLines is the number
\* of lines read from all the sources, and cacheHits the number of those
\* parsed successfully with the hinted entry.  main reads the counters only
\* after close(ch), when mergeLogs has ended and every record sent is
\* printed, and no step changes a counter afterwards: the values reported
\* are the final ones.
C23_Counters ==
  /\ [](/\ cacheHits <= processedLines
        /\ processedLines = Cardinality(linesRead)
        /\ \A i \in DOMAIN reads :
             scanners[i] # nil => Len(reads[i]) = scanners[i].pos
        /\ cacheHits = Cardinality(hintedParses))
  /\ [](reported # nil =>
          /\ closed = 1 /\ pc = "done" /\ cpc = "done"
          /\ Len(printed) = Len(sent)
          /\ reported = [lines |-> processedLines, hits |-> cacheHits])
  /\ [][(closed = 1 \/ cpc = "done") =>
          (processedLines' = processedLines /\ cacheHits' = cacheHits)]_vars

\* Three lines of two files were read, one of them a cache hit, and the
\* counters were reported.
C23_Witness ==
  /\ reported = [lines |-> 3, hits |-> 1]
  /\ N = 2
  /\ \A i \in 1..N : reads[i] # <<>>

(***************************************************************************)
(* mergeLogs run on its own, from the first line to the last, on the       *)
(* files and the window of the run: the records it sends, in order.        *)
(***************************************************************************)
\* Lines 138-156: the state after the files are opened.
openedState ==
  [scanners |-> [i \in 1..N |-> IF allFiles[i].exists THEN [pos |-> 0]
                                                       ELSE nil],
   timestamps |-> [i \in 1..N |-> ZeroTime],
   restOfLines |-> [i \in 1..N |-> <<>>],
   fileErrors |-> [i \in 1..N |-> IF allFiles[i].exists THEN NoError
                                                         ELSE OpenError],
   lfi |-> <<>>, processedLines |-> 0, cacheHits |-> 0,
   reads |-> [i \in 1..N |-> <<>>]]

\* Lines 159-163 for the files from i on.
RECURSIVE seedAll(_, _)
seedAll(st, i) ==
  IF i > N THEN st
  ELSE IF st.scanners[i] = nil THEN seedAll(st, i + 1)
  ELSE With(readNextTimestamp(allFiles[i].lines, st.scanners[i].pos, i,
                              st.lfi),
            LAMBDA r : seedAll(afterRead(st, i, r, r.timestamp, r.err), i + 1))

\* Lines 194-208 for file i.
advanceOne(st, i) ==
  With(readNextTimestamp(allFiles[i].lines, st.scanners[i].pos, i, st.lfi),
       LAMBDA r : afterRead(st, i, r, keptTimestamp(r, st.timestamps[i]),
                            keptError(r, st.fileErrors[i])))

\* Lines 165-209: the loop, out being the records sent so far.
RECURSIVE loopAll(_, _)
loopAll(st, out) ==
  With(findEarliest(st.timestamps, st.fileErrors, 1,
                    [found |-> FALSE, earliestIndex |-> 0,
                     earliestTime |-> ZeroTime]),
       LAMBDA e :
         IF loopDecision(e) = "close" THEN out
         ELSE loopAll(advanceOne(st, e.earliestIndex),
                      IF loopDecision(e) = "send"
                        THEN Append(out,
                               lineStruct(e.earliestTime,
                                          Base(allFiles[e.earliestIndex].name),
                                          st.restOfLines[e.earliestIndex]))
                        ELSE out))

mergeOutput == loopAll(seedAll(openedState, 1), <<>>)

\* What main prints for the records of mergeOutput (lines 275-276).
expectedOutput ==
  With(mergeOutput,
       LAMBDA out : [k \in DOMAIN out |->
                       [out[k] EXCEPT !.filename = getFilenamePrefix(@)]])

====
